---- MODULE Spec2Model ----
(***************************************************************************)
(* A model of the PPA valuation engine: the contract object myPPA          *)
(* (src/myPPA.py) and the helper functions of src/PPA_suite.py.            *)
(*                                                                         *)
(* Time is counted in whole hours from 00:00 of day 0.  The calendar is    *)
(* anchored so that day 0 is Sunday 2017-12-31: the boundary between day 0 *)
(* and day 1 ends a week, a month, a quarter and a year at once, and days  *)
(* 1..7 lie in one week, month, quarter and year.                          *)
(*                                                                         *)
(* Numbers are exact rationals <<n, d>> with d > 0 in lowest terms; the    *)
(* non-finite floats are NaN = <<0, 0>>, +inf = <<1, 0>>, -inf = <<-1, 0>>.*)
(* Powers with a fractional exponent are computed only where the result is *)
(* rational; the operations draw their inputs where that is the case.      *)
(***************************************************************************)
EXTENDS Integers, Sequences, FiniteSets, TLC

VARIABLES date_start, date_end, discount, price_ppa, price_market, tenor,
          generation,   \* the fields of one myPPA object
          ret,          \* the last call on it: operation, arguments, outcome
          called,       \* which of get_gen_data, build_ppa_price were called
          data,         \* the caller's inputs: generation record and forecast
          df,           \* a call of compute_discount_factors and its result
          location,     \* the class attribute myPPA.location, one dict
          peer          \* a second myPPA object, once constructed

ppa  == <<date_start, date_end, discount, price_ppa, price_market, tenor,
          generation>>

vars == <<date_start, date_end, discount, price_ppa, price_market, tenor,
          generation, ret, called, data, df, location, peer>>

-----------------------------------------------------------------------------
(* Bounds of the model *)

\* days 0..MaxDay are the calendar days a date input may name
MaxDay == 1

\* compute_discount_factors is explored for lengths 0..MaxLen
MaxLen == 3

\* ... and for whole-period offsets 0..MaxOffset
MaxOffset == 2

HoursPerDay == 24

LastHourOfDay == 23

-----------------------------------------------------------------------------
(* Exact rational arithmetic standing for Python / numpy floats *)

RECURSIVE GCD(_, _)
GCD(a, b) == IF b = 0 THEN a ELSE GCD(b, a % b)

Abs(x) == IF x < 0 THEN -x ELSE x

Norm(n, d) ==
    IF d = 0 THEN <<IF n > 0 THEN 1 ELSE IF n < 0 THEN -1 ELSE 0, 0>>
    ELSE IF d = 1 THEN <<n, 1>>
    ELSE LET s == IF d < 0 THEN -1 ELSE 1
             g == GCD(Abs(n), Abs(d))
         IN  <<(s * n) \div g, (s * d) \div g>>

R(n) == <<n, 1>>

NaN == <<0, 0>>

IsNaN(a) == a = NaN

IsFinite(a) == a[2] # 0

RAdd(a, b) ==
    IF a[2] = 1 /\ b[2] = 1 THEN <<a[1] + b[1], 1>>
    ELSE IF IsNaN(a) \/ IsNaN(b) THEN NaN
    ELSE IF a[2] = 0 /\ b[2] = 0 THEN (IF a = b THEN a ELSE NaN)
    ELSE IF a[2] = 0 THEN a
    ELSE IF b[2] = 0 THEN b
    ELSE IF a[2] = b[2] THEN Norm(a[1] + b[1], a[2])
    ELSE LET g == GCD(a[2], b[2])
         IN  Norm(a[1] * (b[2] \div g) + b[1] * (a[2] \div g),
                  (a[2] \div g) * b[2])

RNeg(a) == <<-a[1], a[2]>>

RSub(a, b) == RAdd(a, RNeg(b))

RMul(a, b) ==
    IF a[2] = 1 /\ b[2] = 1 THEN <<a[1] * b[1], 1>>
    ELSE IF IsNaN(a) \/ IsNaN(b) THEN NaN
    ELSE IF (a[2] = 0 /\ b[1] = 0) \/ (b[2] = 0 /\ a[1] = 0) THEN NaN
    ELSE IF a[2] = 0 \/ b[2] = 0 THEN Norm(a[1] * b[1], 0)
    ELSE IF a[1] = 0 \/ b[1] = 0 THEN <<0, 1>>
    ELSE LET g1 == GCD(Abs(a[1]), b[2])
             g2 == GCD(Abs(b[1]), a[2])
         IN  <<(a[1] \div g1) * (b[1] \div g2), (a[2] \div g2) * (b[2] \div g1)>>

\* numpy float64 division: x/0 is +-inf, 0/0 is nan (a warning, no exception)
RDiv(a, b) ==
    IF IsNaN(a) \/ IsNaN(b) THEN NaN
    ELSE IF a[2] = 0 /\ b[2] = 0 THEN NaN
    ELSE IF b[2] = 0 THEN R(0)
    ELSE IF b[1] = 0 THEN Norm(a[1], 0)
    ELSE IF b[1] < 0 THEN RMul(a, <<-b[2], -b[1]>>)
    ELSE RMul(a, <<b[2], b[1]>>)

\* a < b; every comparison with NaN is False
RLt(a, b) ==
    IF IsNaN(a) \/ IsNaN(b) THEN FALSE
    ELSE IF a[2] = 0 /\ b[2] = 0 THEN a[1] < b[1]
    ELSE IF a[2] = 0 THEN a[1] < 0
    ELSE IF b[2] = 0 THEN b[1] > 0
    ELSE LET g == GCD(a[2], b[2])
         IN  a[1] * (b[2] \div g) < b[1] * (a[2] \div g)

RECURSIVE RPowNat(_, _)
RPowNat(a, k) == IF k = 0 THEN R(1) ELSE RMul(a, RPowNat(a, k - 1))

\* the rationals among which an exact root is looked for
RootCandidates == {Norm(n, d) : n \in 1..12, d \in 1..12}

\* the largest root index the search is made for
MaxRootIndex == 4

\* Whether a ** e is rational and computed by RPow: e = <<p, q>> in lowest terms
HasPow(a, e) ==
    /\ IsFinite(a) /\ IsFinite(e) /\ a[1] > 0
    /\ \/ e[2] = 1
       \/ a = R(1)
       \/ /\ e[2] <= MaxRootIndex /\ e[1] > 0
          /\ \E y \in RootCandidates : RPowNat(y, e[2]) = RPowNat(a, e[1])

\* a ** e for a > 0
RPow(a, e) ==
    IF a = R(1) THEN R(1)
    ELSE IF e[2] = 1
    THEN (IF e[1] >= 0 THEN RPowNat(a, e[1])
          ELSE RDiv(R(1), RPowNat(a, -e[1])))
    ELSE CHOOSE y \in RootCandidates : RPowNat(y, e[2]) = RPowNat(a, e[1])

-----------------------------------------------------------------------------
(* Python values: floats, lists, pandas Series / DatetimeIndex, None *)

PyNone == [kind |-> "None", idx |-> <<>>, val |-> <<>>]

\* the class attributes price_market = [] and tenor = []
PyList == [kind |-> "list", idx |-> <<>>, val |-> <<>>]

\* a key a dict does not hold
Absent == [kind |-> "absent", idx |-> <<>>, val |-> <<>>]

Float(v) == [kind |-> "float", idx |-> <<>>, val |-> <<v>>]

\* an hourly-indexed Series: idx the ascending time stamps, val the data
Series(idx, val) == [kind |-> "Series", idx |-> idx, val |-> val]

DatetimeIndex(idx) == [kind |-> "DatetimeIndex", idx |-> idx, val |-> <<>>]

\* len() of a list, an index or a Series
PyLen(x) == IF x.kind = "Series" THEN Len(x.val) ELSE Len(x.idx)

Ok(v) == [status |-> "ok", value |-> v]

Raise(e) == [status |-> e, value |-> PyNone]

Max(a, b) == IF a > b THEN a ELSE b

\* s[lo:hi] on a Series with a monotonic DatetimeIndex: label-based and
\* inclusive on both ends; empty when nothing lies in the range
SliceSeries(s, lo, hi) ==
    LET a == Cardinality({i \in 1..Len(s.idx) : s.idx[i] < lo}) + 1
        b == Cardinality({i \in 1..Len(s.idx) : s.idx[i] <= hi})
    IN  IF a > b THEN Series(<<>>, <<>>)
        ELSE Series(SubSeq(s.idx, a, b), SubSeq(s.val, a, b))

\* a variant in which slicing the empty list by datetimes gives an empty
\* Series instead of raising
SliceListAsSeries(x, lo, hi) == Ok(SliceSeries(x, lo, hi))

\* x[lo:hi]: a list sliced by datetimes raises TypeError
PySlice(x, lo, hi) ==
    IF x.kind = "Series" THEN Ok(SliceSeries(x, lo, hi)) ELSE Raise("TypeError")

\* Series * scalar
ScaleSeries(s, c) == Series(s.idx, [i \in 1..Len(s.val) |-> RMul(s.val[i], c)])

RECURSIVE SortedSeq(_)
SortedSeq(S) ==
    IF S = {} THEN <<>>
    ELSE LET m == CHOOSE x \in S : \A y \in S : x <= y
         IN  <<m>> \o SortedSeq(S \ {m})

Range(q) == {q[i] : i \in 1..Len(q)}

\* the value a Series holds at label h, NaN where it holds none (the
\* position is h - idx[1] + 1 when the index has no gap before h)
At(s, h) ==
    LET n == Len(s.idx)
        k == IF n = 0 THEN 0 ELSE h - s.idx[1] + 1
    IN  IF n = 0 THEN NaN
        ELSE IF 1 <= k /\ k <= n /\ s.idx[k] = h THEN s.val[k]
        ELSE IF \E i \in 1..n : s.idx[i] = h
        THEN s.val[CHOOSE i \in 1..n : s.idx[i] = h]
        ELSE NaN

\* Series - x: a scalar is broadcast; two Series are aligned on the union of
\* their indexes, with NaN where either holds no value
SeriesSub(s, x) ==
    IF x.kind = "float"
    THEN Series(s.idx, [i \in 1..Len(s.val) |-> RSub(s.val[i], x.val[1])])
    ELSE IF x.idx = s.idx
    THEN Series(s.idx, [i \in 1..Len(s.val) |-> RSub(s.val[i], x.val[i])])
    ELSE LET u == IF Range(s.idx) \subseteq Range(x.idx) THEN x.idx
                  ELSE IF Range(x.idx) \subseteq Range(s.idx) THEN s.idx
                  ELSE SortedSeq(Range(s.idx) \cup Range(x.idx))
         IN  Series(u, [i \in 1..Len(u) |-> RSub(At(s, u[i]), At(x, u[i]))])

\* numpy.multiply on two 1-d arrays: equal lengths, or one of length 1 that
\* is broadcast; anything else raises ValueError
np_multiply(a, b) ==
    IF Len(a) = Len(b) THEN Ok([i \in 1..Len(a) |-> RMul(a[i], b[i])])
    ELSE IF Len(a) = 1 THEN Ok([i \in 1..Len(b) |-> RMul(a[1], b[i])])
    ELSE IF Len(b) = 1 THEN Ok([i \in 1..Len(a) |-> RMul(a[i], b[1])])
    ELSE Raise("ValueError")

\* the sum of a[lo..hi] without its NaN values
RECURSIVE NanSumOf(_, _, _)
NanSumOf(a, lo, hi) ==
    IF lo > hi THEN R(0)
    ELSE IF lo = hi THEN (IF IsNaN(a[lo]) THEN R(0) ELSE a[lo])
    ELSE LET mid == (lo + hi) \div 2
         IN  RAdd(NanSumOf(a, lo, mid), NanSumOf(a, mid + 1, hi))

\* numpy.nansum: NaN counts as zero
np_nansum(a) == NanSumOf(a, 1, Len(a))

\* a variant that leaves the end out of the range
date_range_open(start, end) ==
    DatetimeIndex([i \in 1..Max(0, end - start) |-> start + i - 1])

\* pandas.date_range(start, end, freq='H'): empty when end < start
date_range(start, end) ==
    DatetimeIndex([i \in 1..Max(0, end - start + 1) |-> start + i - 1])

-----------------------------------------------------------------------------
(* src/PPA_suite.py *)

storage_dict ==
    [hourly |-> R(8760), daily |-> <<1461, 4>>, weekly |-> R(52),
     monthly |-> R(12), quarterly |-> R(4), annually |-> R(1), yearly |-> R(1)]

\* storage_dict[freq]: KeyError for a key the dictionary does not hold
num_compound_periods(freq) ==
    IF freq \in DOMAIN storage_dict THEN Ok(Float(storage_dict[freq]))
    ELSE Raise("KeyError")

\* (1 + eff_ann_rate) ** (1 / N) - 1
compute_periodic_rate(eff_ann_rate, freq) ==
    LET N == num_compound_periods(freq)
    IN  IF N.status # "ok" THEN N
        ELSE Ok(Float(RSub(RPow(RAdd(R(1), eff_ann_rate),
                                RDiv(R(1), N.value.val[1])), R(1))))

\* a date input: a date, a datetime (with its time of day) or a string
\* 'YYYY-MM-DD'; each branch keeps the calendar day and sets the hour to 00:00
start_date_processor(d) ==
    IF d.type = "date" THEN d.day * HoursPerDay + 0
    ELSE IF d.type = "datetime" THEN d.day * HoursPerDay + 0
    ELSE d.day * HoursPerDay + 0

\* ... and here to 23:00
end_date_processor(d) ==
    IF d.type = "datetime" THEN d.day * HoursPerDay + LastHourOfDay
    ELSE IF d.type = "date" THEN d.day * HoursPerDay + LastHourOfDay
    ELSE d.day * HoursPerDay + LastHourOfDay

days_in_sett_freq ==
    [daily |-> R(1), weekly |-> R(7), monthly |-> <<61, 2>>,
     quarterly |-> R(91), annually |-> <<1461, 4>>]

\* periods from now to dt_start; now is the wall clock, in whole hours.
\* diff.days is the floor of the difference in days, diff.seconds the rest
compute_compound_periods(dt_start, sett_freq, now) ==
    LET diff    == dt_start - now
        days    == diff \div HoursPerDay
        seconds == (diff % HoursPerDay) * 3600
    IN  IF sett_freq # "hourly" /\ sett_freq \notin DOMAIN days_in_sett_freq
        THEN Raise("KeyError")
        ELSE LET no_of_periods ==
                     IF sett_freq = "hourly"
                     THEN R(days * HoursPerDay + seconds \div 3600)
                     ELSE RDiv(R(days), days_in_sett_freq[sett_freq])
             IN  IF RLt(no_of_periods, R(0)) THEN Ok(Float(R(0)))
                 ELSE Ok(Float(no_of_periods))

freq == [daily |-> "d", weekly |-> "W", monthly |-> "M", quarterly |-> "Q",
         yearly |-> "A"]

\* freq[arg]: KeyError for a key the dictionary does not hold
myfreq2(arg) ==
    IF arg \in DOMAIN freq THEN Ok(freq[arg]) ELSE Raise("KeyError")

\* the calendar period an hour falls in: its day for 'd'; for 'W', 'M', 'Q'
\* and 'A' the period that ends with day 0 or the one that starts with day 1
\* (days -5..7 of the calendar this model is anchored to)
PeriodOf(rule, hour) ==
    LET day == hour \div HoursPerDay
    IN  IF rule = "d" THEN day ELSE IF day < 1 THEN 0 ELSE 1

\* series.resample(rule).sum(): one value per calendar period from the first
\* to the last time stamp, the sum of the period's values that are not NaN
Resample(series, rule) ==
    IF Len(series.idx) = 0 THEN Series(<<>>, <<>>)
    ELSE LET n  == Len(series.idx)
             p1 == PeriodOf(rule, series.idx[1])
             p2 == PeriodOf(rule, series.idx[n])
             Bucket(b) == [i \in 1..n |->
                             IF PeriodOf(rule, series.idx[i]) = b
                             THEN series.val[i] ELSE NaN]
         IN  Series([k \in 1..(p2 - p1 + 1) |-> p1 + k - 1],
                    [k \in 1..(p2 - p1 + 1) |-> np_nansum(Bucket(p1 + k - 1))])

series_resample(series, sett_freq) ==
    IF sett_freq = "hourly" THEN Ok(series)
    ELSE LET rule == myfreq2(sett_freq)
         IN  IF rule.status # "ok" THEN Raise(rule.status)
             ELSE Ok(Resample(series, rule.value))

\* the k factors that follow the factor prev, each the one before it times
\* 1 / (1 + periodic_rate)
RECURSIVE FactorsAfter(_, _, _)
FactorsAfter(prev, periodic_rate, k) ==
    IF k = 0 THEN <<>>
    ELSE IF k = 1 THEN <<RMul(prev, RDiv(R(1), RAdd(R(1), periodic_rate)))>>
    ELSE LET first == FactorsAfter(prev, periodic_rate, k \div 2)
         IN  first \o FactorsAfter(first[Len(first)], periodic_rate, k - k \div 2)

\* a variant whose first factor discounts over the periods to the first
\* settlement only, without the period that ends at the settlement
discount_factors_unshifted(len_cashflow, periodic_rate, periods_to_first_settlement) ==
    IF len_cashflow = 0 THEN <<>>
    ELSE LET first == RDiv(R(1), RPow(RAdd(R(1), periodic_rate),
                                      periods_to_first_settlement))
         IN  <<first>> \o FactorsAfter(first, periodic_rate, len_cashflow - 1)

\* disc_fact[0] = 1 / (1 + rate) ** (1 + periods_to_first_settlement),
\* disc_fact[i] = disc_fact[i - 1] * (1 / (1 + rate))
compute_discount_factors(len_cashflow, periodic_rate, periods_to_first_settlement) ==
    IF len_cashflow = 0 THEN <<>>
    ELSE LET first == RDiv(R(1), RPow(RAdd(R(1), periodic_rate),
                                      RAdd(R(1), periods_to_first_settlement)))
         IN  <<first>> \o FactorsAfter(first, periodic_rate, len_cashflow - 1)

\* numpy.multiply of the two value arrays, then pandas.Series(product, tenor),
\* which raises ValueError unless the product has the length of the index
compute_cash_flow(gen_prof, spot_prices, index) ==
    LET revenue_base == np_multiply(gen_prof.val, spot_prices.val)
    IN  IF revenue_base.status # "ok" THEN revenue_base
        ELSE IF Len(revenue_base.value) # PyLen(index) THEN Raise("ValueError")
        ELSE Ok(Series(index.idx, revenue_base.value))

-----------------------------------------------------------------------------
(* Inputs: what the data supplier and the caller hand to the contract *)

LastHour == HoursPerDay * (MaxDay + 1) - 1

\* an hourly Series over the hours lo..hi with value f[h] at hour h
Hourly(lo, hi, f) ==
    Series([i \in 1..(hi - lo + 1) |-> lo + i - 1],
           [i \in 1..(hi - lo + 1) |-> f[lo + i - 1]])

FlatPrice == [h \in 0..LastHour |-> R(50)]

VaryingPrice == [h \in 0..LastHour |-> R(40 + 10 * (h % 3))]

FullLoad == [h \in 0..LastHour |-> R(1)]

VaryingLoad == [h \in 0..LastHour |-> IF h % 2 = 0 THEN R(1) ELSE <<1, 2>>]

GenDict(capacity, profile) ==
    [keys |-> {"capacity", "profile"}, capacity |-> capacity, profile |-> profile]

\* the class attribute generation = dict()
EmptyDict == [keys |-> {}, capacity |-> NaN, profile |-> Absent]

\* a date for every day, a datetime and a string
DateInputs ==
    [type : {"date"}, day : 0..MaxDay, hour : {0}]
    \cup {[type |-> "datetime", day |-> 0, hour |-> 13],
          [type |-> "str", day |-> MaxDay, hour |-> 0]}

\* effective annual rates: 0 and 46.41 %, whose quarterly rate is 10 %
DiscountInputs == {R(0), <<4641, 10000>>}

PriceDict(type, fixed, floor, ceil, index) ==
    [type |-> type, fixed |-> fixed, floor |-> floor, ceil |-> ceil,
     index |-> index, price |-> Absent]

FixedPriceInputs == {R(60)}

FreqInputs == DOMAIN storage_dict \cup {"fortnightly"}

\* the wall clock at a valuation call: 91 days before day 0, or after the
\* last day
Before == -(91 * HoursPerDay)

After == LastHour + 5

\* settlement frequency and wall clock of a valuation call
ValuationInputs ==
    (FreqInputs \X {After}) \cup ({"hourly", "quarterly"} \X {Before})

\* what the caller holds: price terms, a forecast, a generation record
Scenarios ==
    { [price |-> PriceDict("fixed", R(50), R(0), R(0), R(1)),
       hpfc |-> Hourly(0, LastHour, FlatPrice),
       generation |-> GenDict(R(2), Hourly(0, LastHour, FullLoad))],
      [price |-> PriceDict("indexed", R(50), R(0), R(0), R(1)),
       hpfc |-> Hourly(0, LastHour, VaryingPrice),
       generation |-> GenDict(R(1), Hourly(0, LastHour - 1, VaryingLoad))],
      [price |-> PriceDict("fixed", R(50), R(45), R(55), R(1)),
       hpfc |-> Hourly(0, LastHour, FlatPrice),
       generation |-> GenDict(R(1), Hourly(0, 0, FullLoad))],
      [price |-> PriceDict("indexed", R(50), R(90), R(110), R(2)),
       hpfc |-> Hourly(0, LastHour, VaryingPrice),
       generation |-> GenDict(R(2), Hourly(0, LastHour, FullLoad))] }

-----------------------------------------------------------------------------
(* src/myPPA.py: class myPPA *)

\* ppa_price[ppa_price < floor] = floor: a float takes no item assignment
ClampBelow(p, floor) ==
    IF p.kind # "Series" THEN Raise("TypeError")
    ELSE Ok(Series(p.idx, [i \in 1..Len(p.val) |->
                IF RLt(p.val[i], floor) THEN floor ELSE p.val[i]]))

\* ppa_price[ppa_price > ceil] = ceil
ClampAbove(p, ceil) ==
    IF p.kind # "Series" THEN Raise("TypeError")
    ELSE Ok(Series(p.idx, [i \in 1..Len(p.val) |->
                IF RLt(ceil, p.val[i]) THEN ceil ELSE p.val[i]]))

\* the price before the thresholds: the scalar price_ppa['fixed'], or
\* price_market * price_ppa['index'] over the index of the forecast
UnclampedPrice(terms, spot_price_forecast) ==
    IF terms.type = "fixed" THEN Float(terms.fixed)
    ELSE ScaleSeries(spot_price_forecast, terms.index)

\* the value build_ppa_price computes, or the exception it raises
PpaPrice(terms, spot_price_forecast) ==
    LET ppa_price == UnclampedPrice(terms, spot_price_forecast)
        floored   == IF RLt(R(0), terms.floor)
                     THEN ClampBelow(ppa_price, terms.floor) ELSE Ok(ppa_price)
    IN  IF floored.status # "ok" THEN floored
        ELSE IF RLt(R(0), terms.ceil) THEN ClampAbove(floored.value, terms.ceil)
        ELSE floored

\* data['location'] of two input records
LocationInputs ==
    <<[project |-> "site 1", corporate |-> "buyer 1"],
      [project |-> "site 2", corporate |-> "buyer 2"]>>

\* no second object yet: its attributes as the class defines them.
\* price_ppa says which dict the object's price_ppa refers to: "shared" is
\* the dict of the first object (both were constructed from one input
\* record), "own" a dict of its own, held in own_price
NoPeer ==
    [exists |-> FALSE, calls |-> 0, date_start |-> 0, date_end |-> 0,
     discount |-> R(0), price_ppa |-> "own", own_price |-> PriceDict("fixed", R(0), R(0), R(0), R(0)),
     price_market |-> PyList, tenor |-> PyList, generation |-> EmptyDict]

Call(op, sett_freq, r) ==
    [op |-> op, freq |-> sett_freq, status |-> r.status, value |-> r.value]

Init ==
    /\ \E s \in DateInputs, e \in DateInputs :
          /\ date_start = start_date_processor(s)
          /\ date_end   = end_date_processor(e)
    /\ discount \in DiscountInputs
    /\ \E sc \in Scenarios :
          /\ price_ppa = sc.price
          /\ data = [hpfc |-> sc.hpfc, generation |-> sc.generation]
    /\ price_market = PyList
    /\ tenor = PyList
    /\ generation = EmptyDict
    /\ ret = Call("__init__", "", Ok(PyNone))
    /\ called = {}
    /\ df = [len |-> 0, rate |-> R(0), offset |-> R(0), returned |-> FALSE, out |-> <<>>]
    /\ location = LocationInputs[1]
    /\ peer = NoPeer

get_gen_data(g) ==
    /\ generation' = g
    /\ ret' = Call("get_gen_data", "", Ok(PyNone))
    /\ called' = called \cup {"get_gen_data"}
    /\ UNCHANGED <<date_start, date_end, discount, price_ppa, price_market,
                   tenor, data, df, location, peer>>

\* a variant that does not store the forecast as the market reference
build_ppa_price_without_market(spot_price_forecast) ==
    LET r == PpaPrice(price_ppa, spot_price_forecast)
    IN  /\ tenor' = date_range(date_start, date_end)
        /\ price_ppa' = IF r.status = "ok"
                        THEN [price_ppa EXCEPT !.price = r.value]
                        ELSE price_ppa
        /\ ret' = Call("build_ppa_price", "", r)
        /\ called' = called \cup {"build_ppa_price"}
        /\ UNCHANGED <<date_start, date_end, discount, generation,
                       price_market, data, df, location, peer>>

\* price_market and tenor are stored before the price is computed, so they
\* change also when the thresholds raise
build_ppa_price(spot_price_forecast) ==
    LET r == PpaPrice(price_ppa, spot_price_forecast)
    IN  /\ price_market' = spot_price_forecast
        /\ tenor' = date_range(date_start, date_end)
        /\ price_ppa' = IF r.status = "ok"
                        THEN [price_ppa EXCEPT !.price = r.value]
                        ELSE price_ppa
        /\ ret' = Call("build_ppa_price", "", r)
        /\ called' = called \cup {"build_ppa_price"}
        /\ UNCHANGED <<date_start, date_end, discount, generation, data, df, location, peer>>

\* Series * ndarray of the same length, value by value
SeqMul(a, b) == [i \in 1..Len(a) |-> RMul(a[i], b[i])]

\* what compute_fair_price(sett_freq) returns or raises, called at time now
FairPrice(self, sett_freq, now) ==
    IF "profile" \notin self.generation.keys THEN Raise("KeyError") ELSE
    LET gen_prof == SliceSeries(self.generation.profile, self.date_start, self.date_end)
        sliced   == PySlice(self.price_market, self.date_start, self.date_end)
    IN  IF sliced.status # "ok" THEN sliced ELSE
    LET spot_prices == sliced.value
    IN  IF PyLen(gen_prof) # PyLen(spot_prices) THEN Raise("AssertionError") ELSE
    LET revenue_base == compute_cash_flow(gen_prof, spot_prices, self.tenor)
    IN  IF revenue_base.status # "ok" THEN Raise(revenue_base.status) ELSE
    LET revenue_sampled == series_resample(revenue_base.value, sett_freq)
    IN  IF revenue_sampled.status # "ok" THEN Raise(revenue_sampled.status) ELSE
    LET periodic_rate == compute_periodic_rate(self.discount, sett_freq)
    IN  IF periodic_rate.status # "ok" THEN Raise(periodic_rate.status) ELSE
    LET compound_periods == compute_compound_periods(self.date_start, sett_freq, now)
    IN  IF compound_periods.status # "ok" THEN Raise(compound_periods.status) ELSE
    LET disc_fact == compute_discount_factors(PyLen(revenue_sampled.value),
                         periodic_rate.value.val[1], compound_periods.value.val[1])
        nominator == np_nansum(SeqMul(revenue_sampled.value.val, disc_fact))
        gen_prof_sampled == series_resample(gen_prof, sett_freq)
        weighted  == np_multiply(disc_fact, gen_prof_sampled.value.val)
    IN  IF weighted.status # "ok" THEN Raise(weighted.status)
        ELSE Ok(Float(RDiv(nominator, np_nansum(weighted.value))))

\* what compute_ppa_npv(sett_freq) returns or raises, called at time now
PpaNpv(self, sett_freq, now) ==
    IF "profile" \notin self.generation.keys THEN Raise("KeyError") ELSE
    LET gen_prof == ScaleSeries(SliceSeries(self.generation.profile, self.date_start, self.date_end),
                                self.generation.capacity)
        sliced   == PySlice(self.price_market, self.date_start, self.date_end)
    IN  IF sliced.status # "ok" THEN sliced ELSE
    LET spot_prices == sliced.value
    IN  IF self.price_ppa.price.kind = "absent" THEN Raise("KeyError") ELSE
    LET price_diff   == SeriesSub(spot_prices, self.price_ppa.price)
        revenue_base == compute_cash_flow(gen_prof, price_diff, self.tenor)
    IN  IF revenue_base.status # "ok" THEN Raise(revenue_base.status) ELSE
    LET revenue_sampled == series_resample(revenue_base.value, sett_freq)
    IN  IF revenue_sampled.status # "ok" THEN Raise(revenue_sampled.status) ELSE
    LET periodic_rate == compute_periodic_rate(self.discount, sett_freq)
    IN  IF periodic_rate.status # "ok" THEN Raise(periodic_rate.status) ELSE
    LET compound_periods == compute_compound_periods(self.date_start, sett_freq, now)
    IN  IF compound_periods.status # "ok" THEN Raise(compound_periods.status) ELSE
    LET disc_fact == compute_discount_factors(PyLen(revenue_sampled.value),
                         periodic_rate.value.val[1], compound_periods.value.val[1])
        disc_revenue == SeqMul(revenue_sampled.value.val, disc_fact)
    IN  Ok(Float(np_nansum(disc_revenue)))

\* what compute_gen_vol() returns or raises
GenVol(self) ==
    IF "profile" \notin self.generation.keys THEN Raise("KeyError") ELSE
    LET gen_prof == SliceSeries(self.generation.profile, self.date_start, self.date_end)
        energy_profile == ScaleSeries(gen_prof, self.generation.capacity)
    IN  Ok(Float(np_nansum(energy_profile.val)))

\* Whether the powers a valuation at this rate, frequency and time takes are
\* rational: (1 + discount) ** (1 / N) and (1 + rate) ** (1 + periods)
Rational(self, sett_freq, now) ==
    LET N == num_compound_periods(sett_freq)
        p == compute_compound_periods(self.date_start, sett_freq, now)
    IN  N.status = "ok" =>
          /\ HasPow(RAdd(R(1), self.discount), RDiv(R(1), N.value.val[1]))
          /\ p.status = "ok" =>
               HasPow(RAdd(R(1), compute_periodic_rate(self.discount, sett_freq).value.val[1]),
                      RAdd(R(1), p.value.val[1]))

\* the object the methods are called on
Self ==
    [date_start |-> date_start, date_end |-> date_end, discount |-> discount,
     price_ppa |-> price_ppa, price_market |-> price_market, tenor |-> tenor,
     generation |-> generation]

compute_fair_price(sett_freq, now) ==
    /\ Rational(Self, sett_freq, now) = TRUE
    /\ ret' = Call("compute_fair_price", sett_freq, FairPrice(Self, sett_freq, now))
    /\ UNCHANGED <<ppa, called, data, df, location, peer>>

compute_ppa_npv(sett_freq, now) ==
    /\ Rational(Self, sett_freq, now) = TRUE
    /\ ret' = Call("compute_ppa_npv", sett_freq, PpaNpv(Self, sett_freq, now))
    /\ UNCHANGED <<ppa, called, data, df, location, peer>>

compute_gen_vol ==
    /\ ret' = Call("compute_gen_vol", "", GenVol(Self))
    /\ UNCHANGED <<ppa, called, data, df, location, peer>>

get_date_start(arg) ==
    /\ date_start' = start_date_processor(arg)
    /\ ret' = Call("get_date_start", "", Ok(PyNone))
    /\ UNCHANGED <<date_end, discount, price_ppa, price_market, tenor,
                   generation, called, data, df, location, peer>>

\* a variant that derives the tenor again from the new end date
get_date_end_rederiving(arg) ==
    /\ date_end' = end_date_processor(arg)
    /\ tenor' = date_range(date_start, date_end')
    /\ ret' = Call("get_date_end", "", Ok(PyNone))
    /\ UNCHANGED <<date_start, discount, price_ppa, price_market,
                   generation, called, data, df, location, peer>>

get_date_end(arg) ==
    /\ date_end' = end_date_processor(arg)
    /\ ret' = Call("get_date_end", "", Ok(PyNone))
    /\ UNCHANGED <<date_start, discount, price_ppa, price_market, tenor,
                   generation, called, data, df, location, peer>>

get_discount_rate(arg) ==
    /\ discount' = arg
    /\ ret' = Call("get_discount_rate", "", Ok(PyNone))
    /\ UNCHANGED <<date_start, date_end, price_ppa, price_market, tenor,
                   generation, called, data, df, location, peer>>

get_fixed_price(arg) ==
    /\ price_ppa' = [price_ppa EXCEPT !.price = Float(arg)]
    /\ ret' = Call("get_fixed_price", "", Ok(PyNone))
    /\ UNCHANGED <<date_start, date_end, discount, price_market, tenor,
                   generation, called, data, df, location, peer>>

Next ==
    \/ get_gen_data(data.generation)
    \/ build_ppa_price(data.hpfc)
    \/ \E v \in ValuationInputs : compute_fair_price(v[1], v[2])
    \/ \E v \in ValuationInputs : compute_ppa_npv(v[1], v[2])
    \/ compute_gen_vol
    \/ \E d \in DateInputs : get_date_start(d)
    \/ \E d \in DateInputs : get_date_end(d)
    \/ \E r \in DiscountInputs : get_discount_rate(r)
    \/ \E v \in FixedPriceInputs : get_fixed_price(v)

Spec == Init /\ [][Next]_vars

-----------------------------------------------------------------------------
(* compute_discount_factors on its own: the arguments are drawn in the
   initial state and the one action is the call *)

\* periodic rates above -1: negative, zero, and positive ones
RateInputs == {Norm(-1, 2), R(0), Norm(1, 10), Norm(1, 2), R(1), R(3)}

\* whole numbers of periods to the first settlement, and a half period
OffsetInputs == {R(k) : k \in 0..MaxOffset} \cup {Norm(1, 2)}

InitDF ==
    /\ date_start = 0
    /\ date_end = LastHourOfDay
    /\ discount = R(0)
    /\ price_ppa = PriceDict("fixed", R(50), R(0), R(0), R(1))
    /\ data = [hpfc |-> Hourly(0, LastHour, FlatPrice),
               generation |-> GenDict(R(2), Hourly(0, LastHour, FullLoad))]
    /\ price_market = PyList
    /\ tenor = PyList
    /\ generation = EmptyDict
    /\ ret = Call("__init__", "", Ok(PyNone))
    /\ called = {}
    /\ df \in [len : 0..MaxLen, rate : RateInputs, offset : OffsetInputs,
               returned : {FALSE}, out : {<<>>}]
    /\ location = LocationInputs[1]
    /\ peer = NoPeer

discount_factors ==
    /\ ~df.returned
    /\ HasPow(RAdd(R(1), df.rate), RAdd(R(1), df.offset)) = TRUE
    /\ df' = [df EXCEPT !.returned = TRUE,
                        !.out = compute_discount_factors(df.len, df.rate, df.offset)]
    /\ UNCHANGED <<ppa, ret, called, data, location, peer>>

NextDF == discount_factors

SpecDF == InitDF /\ [][NextDF]_vars

-----------------------------------------------------------------------------
(* Two myPPA objects.  The first is the object of the variables date_start
   .. generation; the second is peer.  Both read the class attribute
   location, which __init__ writes into without rebinding it, and an
   object's price_ppa is the very dict of its input record. *)

\* the number of calls made on the second object
MaxPeerCalls == 3

\* the dict the second object's price_ppa refers to
PeerPriceDict == IF peer.price_ppa = "shared" THEN price_ppa ELSE peer.own_price

\* myPPA(data) for the second object, from the input record the first
\* object was constructed from: the same locations, dates and discount
\* (no action of this specification sets the first object's dates or
\* discount anew) and the same price dict
peer_init_same_record ==
    /\ ~peer.exists
    /\ location' = location
    /\ peer' = [peer EXCEPT !.exists = TRUE,
                            !.date_start = date_start,
                            !.date_end = date_end,
                            !.discount = discount,
                            !.price_ppa = "shared"]
    /\ UNCHANGED <<ppa, ret, called, data, df>>

\* myPPA(data) for the second object, from an input record of its own
peer_init(loc, s, e, r, terms) ==
    /\ ~peer.exists
    /\ location' = loc
    /\ peer' = [peer EXCEPT !.exists = TRUE,
                            !.date_start = start_date_processor(s),
                            !.date_end = end_date_processor(e),
                            !.discount = r,
                            !.price_ppa = "own",
                            !.own_price = terms]
    /\ UNCHANGED <<ppa, ret, called, data, df>>

\* a call on the second object that is counted
PeerCall == peer.exists /\ peer.calls < MaxPeerCalls

peer_get_gen_data(g) ==
    /\ PeerCall
    /\ peer' = [peer EXCEPT !.calls = @ + 1, !.generation = g]
    /\ UNCHANGED <<ppa, ret, called, data, df, location>>

\* self.price_ppa['price'] = v on the dict the second object refers to
peer_build_ppa_price(spot_price_forecast) ==
    LET r == PpaPrice(PeerPriceDict, spot_price_forecast)
        stored == r.status = "ok"
    IN  /\ PeerCall
        /\ peer' = [peer EXCEPT
                       !.calls = @ + 1,
                       !.price_market = spot_price_forecast,
                       !.tenor = date_range(peer.date_start, peer.date_end),
                       !.own_price = IF stored /\ peer.price_ppa = "own"
                                     THEN [@ EXCEPT !.price = r.value] ELSE @]
        /\ price_ppa' = IF stored /\ peer.price_ppa = "shared"
                        THEN [price_ppa EXCEPT !.price = r.value] ELSE price_ppa
        /\ UNCHANGED <<date_start, date_end, discount, price_market, tenor,
                       generation, ret, called, data, df, location>>

peer_get_date_start(arg) ==
    /\ PeerCall
    /\ peer' = [peer EXCEPT !.calls = @ + 1, !.date_start = start_date_processor(arg)]
    /\ UNCHANGED <<ppa, ret, called, data, df, location>>

peer_get_date_end(arg) ==
    /\ PeerCall
    /\ peer' = [peer EXCEPT !.calls = @ + 1, !.date_end = end_date_processor(arg)]
    /\ UNCHANGED <<ppa, ret, called, data, df, location>>

peer_get_discount_rate(arg) ==
    /\ PeerCall
    /\ peer' = [peer EXCEPT !.calls = @ + 1, !.discount = arg]
    /\ UNCHANGED <<ppa, ret, called, data, df, location>>

peer_get_fixed_price(arg) ==
    /\ PeerCall
    /\ peer' = [peer EXCEPT
                   !.calls = @ + 1,
                   !.own_price = IF peer.price_ppa = "own"
                                 THEN [@ EXCEPT !.price = Float(arg)] ELSE @]
    /\ price_ppa' = IF peer.price_ppa = "shared"
                    THEN [price_ppa EXCEPT !.price = Float(arg)] ELSE price_ppa
    /\ UNCHANGED <<date_start, date_end, discount, price_market, tenor,
                   generation, ret, called, data, df, location>>

\* the first object, constructed for day 0 at rate 0
InitPair ==
    /\ Init
    /\ date_start = 0
    /\ date_end = LastHourOfDay
    /\ discount = R(0)

NextPair ==
    \/ get_gen_data(data.generation)
    \/ build_ppa_price(data.hpfc)
    \/ compute_ppa_npv("hourly", After)
    \/ peer_init_same_record
    \/ \E s \in DateInputs, r \in DiscountInputs, sc \in Scenarios :
          peer_init(LocationInputs[2], s,
                    [type |-> "str", day |-> MaxDay, hour |-> 0], r, sc.price)
    \/ peer_get_gen_data(data.generation)
    \/ peer_build_ppa_price(data.hpfc)
    \/ \E d \in DateInputs : peer_get_date_start(d)
    \/ \E d \in DateInputs : peer_get_date_end(d)
    \/ \E r \in DiscountInputs : peer_get_discount_rate(r)
    \/ \E v \in FixedPriceInputs : peer_get_fixed_price(v)

SpecPair == InitPair /\ [][NextPair]_vars

-----------------------------------------------------------------------------
(* Properties *)

\* the last call was a valuation with a price: fair price or NPV
Valuation == ret.op \in {"compute_fair_price", "compute_ppa_npv"}

Returned == ret.status = "ok"

\* C1: compute_fair_price and compute_ppa_npv return a value only if
\* build_ppa_price was called earlier on the contract, and compute_gen_vol
\* returns a value once get_gen_data has been called, whether or not
\* build_ppa_price ever was.
C1_ValuationsNeedBuild_GenVolNeedsGeneration ==
    /\ (Valuation /\ Returned) => "build_ppa_price" \in called
    /\ (ret.op = "compute_gen_vol" /\ "get_gen_data" \in called) => Returned

\* a generation volume returned on a contract whose price was never built
C1_GenVolBeforeBuild ==
    /\ ret.op = "compute_gen_vol" /\ Returned
    /\ "build_ppa_price" \notin called
    /\ ret.value.val[1] # R(0)

\* the contract holds a built price / a generation record
PriceBuilt == "build_ppa_price" \in called /\ price_ppa.price.kind # "absent"

GenerationAttached == "get_gen_data" \in called

\* the frequency keys every stage of a valuation holds
AcceptedInEveryStage ==
    (DOMAIN storage_dict) \cap ({"hourly"} \cup DOMAIN days_in_sett_freq)
                          \cap ({"hourly"} \cup DOMAIN freq)

\* the Series s holds a value for every hour of the current window, which
\* is not empty
Covers(s) ==
    /\ date_start <= date_end
    /\ s.kind = "Series"
    /\ PyLen(SliceSeries(s, date_start, date_end)) = date_end - date_start + 1

\* C2: on a contract with a built price and generation attached, after
\* get_date_start or get_date_end the next compute_fair_price, with no
\* rebuild in between, completes.  Stated for the fair price, which reads
\* no PPA price, for a frequency key every stage holds, and for a new
\* window that the forecast and the generation profile both cover.
C2_DateChangeIsSafe ==
    [][ ( /\ ret.op \in {"get_date_start", "get_date_end"}
          /\ PriceBuilt /\ GenerationAttached
          /\ Covers(price_market) /\ Covers(generation.profile)
          /\ ret'.op = "compute_fair_price"
          /\ ret'.freq \in AcceptedInEveryStage )
        => ret'.status = "ok" ]_vars

\* C3 as stated: in every state the tenor is the hourly sequence from
\* date_start to date_end inclusive, of length hours + 1.
C3_TenorFollowsDates ==
    date_start <= date_end =>
        /\ tenor.idx = date_range(date_start, date_end).idx
        /\ PyLen(tenor) = date_end - date_start + 1

\* C3 amended: right after every build_ppa_price the tenor is the hourly
\* sequence from date_start to date_end inclusive (hours + 1 time stamps,
\* none when the end lies before the start), and until the first
\* build_ppa_price it is the empty list.
C3_TenorSetByBuild ==
    /\ ret.op = "build_ppa_price" =>
          /\ tenor = date_range(date_start, date_end)
          /\ PyLen(tenor) = Max(0, date_end - date_start + 1)
          /\ \A i \in 1..PyLen(tenor) : tenor.idx[i] = date_start + i - 1
    /\ "build_ppa_price" \notin called => tenor = PyList

\* a build on a contract of more than one day
C3_TenorBuiltOverTwoDays ==
    /\ ret.op = "build_ppa_price"
    /\ PyLen(tenor) = date_end - date_start + 1
    /\ PyLen(tenor) > HoursPerDay

\* the hours of the current window
Window == {h \in date_start..date_end : TRUE}

\* the price the stored schedule gives for hour h: a scalar is the price of
\* every hour
ScheduleAt(h) ==
    IF price_ppa.price.kind = "float" THEN price_ppa.price.val[1]
    ELSE At(price_ppa.price, h)

\* the values of a schedule, a scalar being its one value
Values(p) == IF p.kind = "Series" THEN Range(p.val) ELSE {p.val[1]}

\* C4: with no floor and no ceiling, the schedule build_ppa_price returns
\* and stores has one value per hour of the tenor and no others:
\* price_ppa['fixed'] for the fixed kind (a scalar is read as that value at
\* every hour), market price times price_ppa['index'] for the indexed kind,
\* also when the forecast covers more hours than the tenor.
C4_ScheduleOverTenor ==
    ( /\ ret.op = "build_ppa_price" /\ Returned
      /\ price_ppa.floor = R(0) /\ price_ppa.ceil = R(0) )
    => /\ ret.value = price_ppa.price
       /\ price_ppa.price.kind = "Series" =>
             Range(price_ppa.price.idx) = Range(tenor.idx)
       /\ \A i \in 1..PyLen(tenor) :
             ScheduleAt(tenor.idx[i]) =
                IF price_ppa.type = "fixed" THEN price_ppa.fixed
                ELSE RMul(At(price_market, tenor.idx[i]), price_ppa.index)

\* C5: for either kind with 0 < floor <= ceil, build_ppa_price returns and
\* every value of the schedule lies in [floor, ceil]; with floor = 0 no
\* value is raised to a floor.
C5_ClampEitherKind ==
    ret.op = "build_ppa_price" =>
       /\ ( RLt(R(0), price_ppa.floor) /\ ~RLt(price_ppa.ceil, price_ppa.floor) )
           => /\ Returned
              /\ \A v \in Values(ret.value) :
                    ~RLt(v, price_ppa.floor) /\ ~RLt(price_ppa.ceil, v)
       /\ ( price_ppa.floor = R(0) /\ price_ppa.ceil = R(0) /\ Returned )
           => ret.value = UnclampedPrice(price_ppa, price_market)

\* the lengths of the two series that enter compute_cash_flow in a
\* valuation: the generation profile over the window, and the market price
\* (fair price) or the price difference (NPV) over the window
GenLength == PyLen(SliceSeries(generation.profile, date_start, date_end))

PriceLength ==
    LET spot_prices == SliceSeries(price_market, date_start, date_end)
    IN  IF ret.op = "compute_fair_price" THEN PyLen(spot_prices)
        ELSE PyLen(SeriesSub(spot_prices, price_ppa.price))

\* C6: a valuation whose generation series and price series differ in
\* length fails and returns no result, whatever the two lengths are.
C6_LengthMismatchFails ==
    ( /\ Valuation
      /\ generation.profile.kind = "Series" /\ price_market.kind = "Series"
      /\ price_ppa.price.kind # "absent"
      /\ GenLength # PriceLength )
    => ~Returned

\* C7: every key of hourly, daily, weekly, monthly, quarterly, annually,
\* yearly is accepted in every stage of a valuation, so that on a contract
\* with a built price and generation attached a valuation fails on the
\* frequency key only for a key outside that set.
C7_SameKeysInEveryStage ==
    ( /\ Valuation /\ PriceBuilt /\ GenerationAttached
      /\ ret.status = "KeyError" )
    => ret.freq \notin DOMAIN storage_dict

\* the tenor is the one of the current dates, and the forecast and the
\* generation profile cover it
BuiltForWindow ==
    /\ PriceBuilt /\ GenerationAttached
    /\ tenor = date_range(date_start, date_end)
    /\ Covers(price_market) /\ Covers(generation.profile)

\* C8: when the built PPA price equals the market price at every hour of
\* the tenor, compute_ppa_npv returns exactly 0, for every discount rate,
\* frequency and generation profile, also when the forecast covers more
\* hours than the tenor.  Stated for the frequency keys every stage holds.
C8_ZeroSpreadZeroNpv ==
    ( /\ ret.op = "compute_ppa_npv" /\ BuiltForWindow
      /\ ret.freq \in AcceptedInEveryStage
      /\ \A h \in Window : ScheduleAt(h) = At(price_market, h) )
    => Returned /\ ret.value = Float(R(0))

\* C9: with a flat market price M equal to the fixed PPA price, discount
\* rate 0, no floor and no ceiling, and generation at full load over the
\* whole tenor, compute_fair_price returns exactly M for every tenor length
\* and every settlement frequency.
C9_FairPriceOfFlatMarket ==
    ( /\ ret.op = "compute_fair_price" /\ BuiltForWindow
      /\ ret.freq \in DOMAIN storage_dict
      /\ discount = R(0)
      /\ price_ppa.type = "fixed"
      /\ price_ppa.floor = R(0) /\ price_ppa.ceil = R(0)
      /\ \A h \in Window :
            /\ At(price_market, h) = price_ppa.fixed
            /\ At(generation.profile, h) = R(1) )
    => Returned /\ ret.value = Float(price_ppa.fixed)

SettersKeepOtherFields ==
    /\ ret'.op = "get_date_start" =>
          UNCHANGED <<date_end, discount, price_ppa, price_market, tenor, generation>>
    /\ ret'.op = "get_date_end" =>
          UNCHANGED <<date_start, discount, price_ppa, price_market, tenor, generation>>
    /\ ret'.op = "get_discount_rate" =>
          UNCHANGED <<date_start, date_end, price_ppa, price_market, tenor, generation>>

\* C11 as stated: the three setters overwrite only their own field, and
\* the tenor, the price schedule, the market reference and the generation
\* reference change only in a build_ppa_price or a get_gen_data call.
C11_ChangedOnlyByBuildOrAttach ==
    [][ /\ SettersKeepOtherFields
        /\ <<tenor, price_ppa.price, price_market, generation>>'
              # <<tenor, price_ppa.price, price_market, generation>>
           => ret'.op \in {"build_ppa_price", "get_gen_data"} ]_vars

\* C11 amended: the three setters overwrite only their own field; the
\* tenor and the market reference change only in build_ppa_price, the
\* generation reference only in get_gen_data, and the price schedule only
\* in build_ppa_price or get_fixed_price.
C11_SettersOverwriteOwnField ==
    [][ /\ SettersKeepOtherFields
        /\ (tenor' # tenor \/ price_market' # price_market)
              => ret'.op = "build_ppa_price"
        /\ generation' # generation => ret'.op = "get_gen_data"
        /\ price_ppa' # price_ppa
              => ret'.op \in {"build_ppa_price", "get_fixed_price"} ]_vars

\* an end date set on a built contract, whose tenor still ends at the
\* earlier end date
C11_EndDateMovedTenorKept ==
    /\ ret.op = "get_date_end" /\ PriceBuilt
    /\ tenor.kind = "DatetimeIndex" /\ PyLen(tenor) > 0
    /\ tenor.idx[1] = date_start
    /\ tenor.idx[PyLen(tenor)] # date_end

SetPrices == {Float(v) : v \in FixedPriceInputs}

\* the price terms of a price record: type, fixed, floor, ceil, index
Terms(p) == [p EXCEPT !.price = Absent]

\* the NPV at rate 0 of the stored scalar price: the sum over the hours of
\* the window of load times capacity times (market price - price)
NpvOfScalarPrice ==
    LET spread == [i \in 1..(date_end - date_start + 1) |->
                     RMul(RMul(At(generation.profile, date_start + i - 1),
                               generation.capacity),
                          RSub(At(price_market, date_start + i - 1),
                               price_ppa.price.val[1]))]
    IN  Float(np_nansum(spread))

\* C13: get_fixed_price(v) stores v as the price and leaves the price
\* terms as they were; the next compute_ppa_npv prices every hour at v,
\* unclamped (stated at discount rate 0, for a contract built for its
\* window and a key every stage holds); and a later build_ppa_price
\* replaces v by the price computed from the terms.
C13_SetPriceUntilNextBuild ==
    /\ ret.op = "get_fixed_price" => price_ppa.price \in SetPrices
    /\ Terms(price_ppa) \in {sc.price : sc \in Scenarios}
    /\ ( /\ ret.op = "compute_ppa_npv" /\ BuiltForWindow
         /\ price_ppa.price \in SetPrices
         /\ ret.freq \in AcceptedInEveryStage /\ discount = R(0) )
       => Returned /\ ret.value = NpvOfScalarPrice
    /\ ret.op = "build_ppa_price" => price_ppa.price \notin SetPrices

\* C14: a call on a second object, its construction included, changes no
\* field of the first object (locations, dates, discount rate, price terms,
\* price schedule), also when both objects were constructed from one
\* input record.
C14_InstancesIsolated ==
    [][ peer' # peer =>
          UNCHANGED <<location, date_start, date_end, discount, price_ppa>> ]_vars

====
